---- MODULE Spec2Model ----
(***************************************************************************)
(* AutoSiteFix: the command line interface (autositefix/cli.py) and the    *)
(* WordPress plugin stub generator (autositefix/wordpress.py), over a      *)
(* model of the local filesystem.                                          *)
(*                                                                         *)
(* A string that the program splits or joins on "/" is modelled as the     *)
(* list of its "/"-separated pieces ("./site/" is <<".", "site", "">>,     *)
(* "/srv/out" is <<"", "srv", "out">>).  A pathlib.Path is modelled as its *)
(* .parts tuple (<<"/", "srv", "out">>).  A filesystem entry is named by   *)
(* its components from the filesystem root.  File content is a list of     *)
(* byte chunks; text is a list of chunks in which "\n" is a chunk.         *)
(***************************************************************************)
EXTENDS Naturals, Sequences, FiniteSets, TLC

\* ------------------------------------------------------------- bounds
\* The amounts of free disk space (in chunks) an initial state may have,
\* besides none: too little for the template, and enough for it.
LowFree == 3

MaxFree == 13

\* ---------------------------------------------------------- constants
PLUGIN_RELATIVE_TEXT == <<"wp-content", "plugins", "autositefix-fixes">>

PLUGIN_MAIN_FILE == "autositefix-fixes.php"

\* The template, by the lines the properties below name: the opening tag and the
\* two hook registrations.
PLUGIN_TEMPLATE ==
    << "<?php", "\n",
       "add_action('wp_head'", "\n",
       "add_filter('the_content'", "\n" >>

\* The process's working directory, as filesystem components.
Cwd == <<"home">>

\* The invocations: p1 alone in the sequential specification, p1 and p2
\* interleaved in the concurrent one.
Procs == {"p1", "p2"}

MainProc == "p1"

\* ------------------------------------------------------------ helpers
RECURSIVE SelectParts(_)
SelectParts(s) ==
    IF s = <<>> THEN <<>>
    ELSE IF Head(s) \in {"", "."} THEN SelectParts(Tail(s))
    ELSE <<Head(s)>> \o SelectParts(Tail(s))

\* pathlib.Path(text): the anchor "/" first when the text starts with a
\* slash, then the pieces without the empty ones and the "." ones.
PathOf(text) ==
    (IF Len(text) > 1 /\ text[1] = "" THEN <<"/">> ELSE <<>>)
        \o SelectParts(text)

IsAbsolute(path) == path # <<>> /\ path[1] = "/"

\* str(path): the text of a path, as its "/"-separated pieces.
StrOf(path) ==
    IF path = <<>> THEN <<".">>
    ELSE IF path = <<"/">> THEN <<"", "">>
    ELSE IF IsAbsolute(path) THEN <<"">> \o Tail(path)
    ELSE path

\* The / operator of pathlib: an absolute right operand replaces the left.
JoinPath(a, b) == IF IsAbsolute(b) THEN b ELSE a \o b

PLUGIN_RELATIVE_PATH == PathOf(PLUGIN_RELATIVE_TEXT)

\* The filesystem entry a path names for the kernel.
Resolve(path) == IF IsAbsolute(path) THEN Tail(path) ELSE Cwd \o path

Parent(e) == SubSeq(e, 1, Len(e) - 1)

Prefixes(e) == { SubSeq(e, 1, k) : k \in 0..Len(e) }

\* ---------------------------------------------------- text <-> bytes
\* What write_text stores for a text: every "\n" becomes os.linesep.
RECURSIVE Encode(_, _)
Encode(text, sep) ==
    IF text = <<>> THEN <<>>
    ELSE (IF Head(text) = "\n" THEN sep ELSE <<Head(text)>>)
             \o Encode(Tail(text), sep)

\* What read_text returns for stored bytes (universal newlines): "\r\n"
\* and a lone "\r" become "\n".
RECURSIVE Decode(_)
Decode(bytes) ==
    IF bytes = <<>> THEN <<>>
    ELSE IF Head(bytes) = "\r"
         THEN IF Len(bytes) > 1 /\ bytes[2] = "\n"
              THEN <<"\n">> \o Decode(SubSeq(bytes, 3, Len(bytes)))
              ELSE <<"\n">> \o Decode(Tail(bytes))
         ELSE <<Head(bytes)>> \o Decode(Tail(bytes))

LineSeps == { <<"\n">>, <<"\r", "\n">> }

\* ------------------------------------------------------ the arguments
WordpressFlags == { <<"--wordpress">>, <<"--wordp">> }

OutputFlags == { <<"--output">>, <<"--out">> }

HelpFlags == { <<"-h">>, <<"--help">> }

\* The tokens argparse takes for options: the ones that start with "-".
OptionLike == WordpressFlags \cup OutputFlags \cup HelpFlags \cup { <<"--bogus">> }

\* The destination an option string selects; argparse accepts any
\* unambiguous prefix of a long option.
OptionDest(tok) ==
    IF tok \in HelpFlags THEN "help"
    ELSE IF tok \in WordpressFlags THEN "wordpress"
    ELSE IF tok \in OutputFlags THEN "output"
    ELSE "extra"

\* default=Path.cwd()
DefaultOutput == <<"/">> \o Cwd

\* parser.parse_args(argv): options are consumed left to right; the help
\* action exits at once, --output takes the next token unless there is none
\* or it looks like an option, and tokens nothing takes are reported at the
\* end.
RECURSIVE ParseFrom(_, _)
ParseFrom(rest, ns) ==
    IF rest = <<>>
    THEN [status |-> IF ns.extras THEN "error" ELSE "ok",
          wordpress |-> ns.wordpress, output |-> ns.output]
    ELSE LET dest == OptionDest(Head(rest)) IN
         IF dest = "help"
         THEN [status |-> "help", wordpress |-> ns.wordpress, output |-> ns.output]
         ELSE IF dest = "wordpress"
         THEN ParseFrom(Tail(rest), [ns EXCEPT !.wordpress = TRUE])
         ELSE IF dest = "output"
         THEN IF Len(rest) >= 2 /\ rest[2] \notin OptionLike
              THEN ParseFrom(SubSeq(rest, 3, Len(rest)),
                             [ns EXCEPT !.output = PathOf(rest[2])])
              ELSE [status |-> "error", wordpress |-> ns.wordpress,
                    output |-> ns.output]
         ELSE ParseFrom(Tail(rest), [ns EXCEPT !.extras = TRUE])

ParseArgs(av) ==
    ParseFrom(av, [wordpress |-> FALSE, output |-> DefaultOutput, extras |-> FALSE])

\* A main that forgets the mode check.
ModeNeverMissing(a) == FALSE

\* if not args.wordpress: parser.error(...)
ModeMissing(a) == ~a.wordpress

\* parser.error exits with status 2; an uncaught exception ends the
\* interpreter with status 1; main returns 0.
ParserErrorExit == 2

UncaughtExit == 1

SuccessExit == 0

\* The argument lists an invocation is given.
ArgLists ==
    { <<>>,
      << <<"--output">>, <<"site">> >>,
      << <<"--wordpress">> >>,
      << <<"--wordpress">>, <<"--output">>, <<"site">> >>,
      << <<"--output">>, <<".", "site", "">>, <<"--wordpress">> >>,
      << <<"--wordpress">>, <<"--output">>, <<"", "srv", "out">> >>,
      << <<"--wordp">>, <<"--out">>, <<"site">> >>,
      << <<"-h">> >>,
      << <<"--wordpress">>, <<"--help">> >>,
      << <<"--wordpress">>, <<"--output">> >>,
      << <<"--wordpress">>, <<"site">> >>,
      << <<"--bogus">>, <<"--output">>, <<"site">> >> }

\* ---------------------------------------------------------- generator
\* A generator that leaves out the wp-content/plugins levels.
PluginDirectoryFlat(base) == JoinPath(base, PathOf(<<"autositefix-fixes">>))

\* plugin_directory = base_directory / PLUGIN_RELATIVE_PATH
PluginDirectory(base) == JoinPath(base, PLUGIN_RELATIVE_PATH)

\* A generator that writes to another file of the plugin directory.
PluginFileSibling(dir) == JoinPath(dir, PathOf(<<"readme.txt">>))

\* plugin_file = plugin_directory / PLUGIN_MAIN_FILE
PluginFile(dir) == JoinPath(dir, PathOf(<<PLUGIN_MAIN_FILE>>))

\* mkdir without exist_ok.
ExistNotOk == FALSE

\* mkdir(parents=True, exist_ok=True)
Parents == TRUE

ExistOk == TRUE

\* A file opened without truncation (mode "r+").
OpenedKeeping(old) == old

\* write_text opens the file with mode "w": what the file holds once it is
\* open, given what it held.
OpenedContent(old) == <<>>

\* A report of the output directory instead of the plugin directory.
SuccessLineOfBase(dir) ==
    [text |-> "Generated WordPress fixes plugin stub at ",
     path |-> StrOf(SubSeq(dir, 1, Len(dir) - Len(PLUGIN_RELATIVE_TEXT)))]

\* f"Generated WordPress fixes plugin stub at {plugin_dir}"
SuccessLine(dir) ==
    [text |-> "Generated WordPress fixes plugin stub at ", path |-> StrOf(dir)]

\* -------------------------------------------------------------- state
VARIABLES
    dirs,       \* the directories of the filesystem (entries)
    files,      \* the regular files: entry -> content (byte chunks)
    ro,         \* entries the process may not write to (EACCES)
    free,       \* free disk space, in chunks
    linesep,    \* os.linesep
    pc,         \* per invocation: where it is
    argv,       \* per invocation: the argument list main was given
    args,       \* per invocation: the parsed namespace
    plugin_directory, \* per invocation: the local of generate_wordpress_plugin
    stack,      \* per invocation: the entries Path.mkdir has yet to make
    retry,      \* per invocation: the top of stack is tried again (parents=False)
    ret,        \* per invocation: what generate_wordpress_plugin returned
    out,        \* per invocation: the lines printed on standard output
    err,        \* per invocation: what was reported on standard error
    code,       \* per invocation: the exit status
    failed,     \* per invocation: the step that raised
    nmkdir,     \* per invocation: calls of plugin_directory.mkdir
    nwrite,     \* per invocation: calls of plugin_file.write_text
    pre,        \* per invocation: the filesystem when it started
    prev        \* the invocation that ended last

vars == << dirs, files, ro, free, linesep, pc, argv, args, plugin_directory,
           stack, retry, ret, out, err, code, failed, nmkdir, nwrite, pre, prev >>

fsvars == << dirs, files, free >>

envvars == << ro, linesep >>

None == <<"<none>">>

NoArgs == [status |-> "none", wordpress |-> FALSE, output |-> None]

NoPrev == [ok |-> FALSE, base |-> None, ret |-> None]

Snapshot == [dirs |-> dirs, files |-> files, free |-> free]

\* ----------------------------------------------------------- syscalls
\* Path resolution of the directories above entry e: the first one that is
\* not a directory decides.
RECURSIVE WalkErrno(_, _, _, _)
WalkErrno(ds, fs, e, k) ==
    IF k >= Len(e) THEN "OK"
    ELSE LET a == SubSeq(e, 1, k) IN
         IF a \in ds THEN WalkErrno(ds, fs, e, k + 1)
         ELSE IF a \in DOMAIN fs THEN "ENOTDIR"
         ELSE "ENOENT"

\* os.mkdir(e) with fr chunks free; a new directory takes one chunk.
MkdirErrno(ds, fs, fr, e) ==
    LET w == WalkErrno(ds, fs, e, 0) IN
    IF w # "OK" THEN w
    ELSE IF e \in ds \/ e \in DOMAIN fs THEN "EEXIST"
    ELSE IF Parent(e) \in ro THEN "EACCES"
    ELSE IF fr = 0 THEN "ENOSPC"
    ELSE "OK"

\* open(e, O_WRONLY | O_CREAT | O_TRUNC)
OpenErrno(ds, fs, e) ==
    LET w == WalkErrno(ds, fs, e, 0) IN
    IF w # "OK" THEN w
    ELSE IF e \in ds THEN "EISDIR"
    ELSE IF e \in DOMAIN fs THEN (IF e \in ro THEN "EACCES" ELSE "OK")
    ELSE IF Parent(e) \in ro THEN "EACCES"
    ELSE "OK"

\* A write that appends (mode "a") instead of writing at offset 0.
Appended(data, old, n) == old \o SubSeq(data, 1, n)

\* How many chunks of data a write at offset 0 stores in a file holding old,
\* with fr chunks free: overwriting takes no space, growing does.
Stored(data, old, fr) ==
    IF Len(data) <= Len(old) + fr THEN Len(data) ELSE Len(old) + fr

\* The file after n chunks of data were written at offset 0.
Overwritten(data, old, n) ==
    SubSeq(data, 1, n) \o SubSeq(old, n + 1, Len(old))

ContentOf(fs, e) == IF e \in DOMAIN fs THEN fs[e] ELSE <<>>

\* Path.is_dir()
IsDir(ds, e) == e \in ds

\* ------------------------------------------------------------ actions
\* An exception that main swallows: the failure is reported as a success.
RaiseSwallowed(p, step) ==
    /\ pc' = [pc EXCEPT ![p] = "done"]
    /\ code' = [code EXCEPT ![p] = SuccessExit]
    /\ failed' = [failed EXCEPT ![p] = step]
    /\ err' = [err EXCEPT ![p] = "none"]

\* The exception of a filesystem call leaves generate_wordpress_plugin and
\* main; nothing catches it.
Raise(p, step) ==
    /\ pc' = [pc EXCEPT ![p] = "done"]
    /\ code' = [code EXCEPT ![p] = UncaughtExit]
    /\ failed' = [failed EXCEPT ![p] = step]
    /\ err' = [err EXCEPT ![p] = "traceback"]

\* main, up to the first filesystem call: build_parser, parse_args, the mode
\* check, and the first line of generate_wordpress_plugin.
Main(p, av) ==
    /\ pc[p] = "idle"
    /\ LET a == ParseArgs(av) IN
       /\ argv' = [argv EXCEPT ![p] = av]
       /\ args' = [args EXCEPT ![p] = a]
       /\ pre' = [pre EXCEPT ![p] = Snapshot]
       /\ IF a.status = "help"
          THEN /\ out' = [out EXCEPT ![p] = << [text |-> "usage", path |-> <<>>] >>]
               /\ code' = [code EXCEPT ![p] = SuccessExit]
               /\ pc' = [pc EXCEPT ![p] = "done"]
               /\ UNCHANGED << err, plugin_directory, stack, retry, nmkdir >>
          ELSE IF a.status = "error" \/ ModeMissing(a)
          THEN /\ err' = [err EXCEPT ![p] = "usage"]
               /\ code' = [code EXCEPT ![p] = ParserErrorExit]
               /\ pc' = [pc EXCEPT ![p] = "done"]
               /\ UNCHANGED << out, plugin_directory, stack, retry, nmkdir >>
          ELSE /\ plugin_directory' =
                     [plugin_directory EXCEPT ![p] = PluginDirectory(a.output)]
               /\ stack' = [stack EXCEPT ![p] = << Resolve(PluginDirectory(a.output)) >>]
               /\ retry' = [retry EXCEPT ![p] = FALSE]
               /\ nmkdir' = [nmkdir EXCEPT ![p] = nmkdir[p] + 1]
               /\ pc' = [pc EXCEPT ![p] = "mkdir"]
               /\ UNCHANGED << out, err, code >>
    /\ UNCHANGED << fsvars, envvars, ret, failed, nwrite, prev >>

\* A generator that goes on to the file without making the directory.
OsMkdirSkipped(p) ==
    /\ pc[p] = "mkdir"
    /\ pc' = [pc EXCEPT ![p] = "open"]
    /\ stack' = [stack EXCEPT ![p] = <<>>]
    /\ UNCHANGED << fsvars, envvars, argv, args, plugin_directory, retry, ret,
                    out, err, code, failed, nmkdir, nwrite, pre, prev >>

\* A generator that opens the file again when writing it failed.
WriteCloseRetried(p) ==
    /\ pc[p] = "write"
    /\ LET e == Resolve(JoinPath(plugin_directory[p], <<PLUGIN_MAIN_FILE>>))
           data == Encode(PLUGIN_TEMPLATE, linesep)
           old == ContentOf(files, e)
           n == IF Len(data) <= Len(old) + free THEN Len(data) ELSE Len(old) + free
       IN
       /\ files' = (e :> (SubSeq(data, 1, n) \o SubSeq(old, n + 1, Len(old)))) @@ files
       /\ free' = free - (IF n > Len(old) THEN n - Len(old) ELSE 0)
       /\ pc' = [pc EXCEPT ![p] = IF n = Len(data) THEN "return" ELSE "open"]
    /\ UNCHANGED << dirs, envvars, argv, args, plugin_directory, stack, retry,
                    ret, out, err, code, failed, nmkdir, nwrite, pre, prev >>

\* One os.mkdir of plugin_directory.mkdir(parents=True, exist_ok=True).
\* The top of the stack is the entry being made; below it wait the entries
\* whose parent was missing; the last one is plugin_directory.
OsMkdir(p) ==
    /\ pc[p] = "mkdir"
    /\ LET e == Head(stack[p])
           target == stack[p][Len(stack[p])]
           errno == MkdirErrno(dirs, files, free, e)
           made == errno = "OK"
           missing == errno = "ENOENT"
           descend == missing /\ Parents /\ ~retry[p]
           tolerated == ~made /\ ~missing
                        /\ (IF e = target THEN ExistOk ELSE TRUE)
                        /\ IsDir(dirs, e)
           popped == Tail(stack[p])
       IN
       /\ dirs' = IF made THEN dirs \cup {e} ELSE dirs
       /\ free' = IF made THEN free - 1 ELSE free
       /\ IF descend
          THEN /\ stack' = [stack EXCEPT ![p] = <<Parent(e)>> \o stack[p]]
               /\ retry' = [retry EXCEPT ![p] = FALSE]
               /\ UNCHANGED << pc, code, failed, err >>
          ELSE IF made \/ tolerated
          THEN /\ stack' = [stack EXCEPT ![p] = popped]
               /\ retry' = [retry EXCEPT ![p] = popped # <<>>]
               /\ pc' = [pc EXCEPT ![p] = IF popped = <<>> THEN "open" ELSE "mkdir"]
               /\ UNCHANGED << code, failed, err >>
          ELSE /\ Raise(p, "mkdir")
               /\ UNCHANGED << stack, retry >>
    /\ UNCHANGED << files, envvars, argv, args, plugin_directory, ret, out,
                    nmkdir, nwrite, pre, prev >>

\* plugin_file.write_text(PLUGIN_TEMPLATE), first half: the file is opened
\* for writing, which creates or truncates it.
OpenTrunc(p) ==
    /\ pc[p] = "open"
    /\ LET e == Resolve(PluginFile(plugin_directory[p]))
           errno == OpenErrno(dirs, files, e)
           old == ContentOf(files, e)
           new == OpenedContent(old)
       IN
       /\ nwrite' = [nwrite EXCEPT ![p] = nwrite[p] + 1]
       /\ IF errno = "OK"
          THEN /\ files' = (e :> new) @@ files
               /\ free' = (free + Len(old)) - Len(new)
               /\ pc' = [pc EXCEPT ![p] = "write"]
               /\ UNCHANGED << code, failed, err >>
          ELSE /\ Raise(p, "open")
               /\ UNCHANGED << files, free >>
    /\ UNCHANGED << dirs, envvars, argv, args, plugin_directory, stack, retry,
                    ret, out, nmkdir, pre, prev >>

\* write_text, second half: the encoded text is written at offset 0 and the
\* file is closed; a full disk keeps what fitted and raises.
WriteClose(p) ==
    /\ pc[p] = "write"
    /\ LET e == Resolve(PluginFile(plugin_directory[p]))
           data == Encode(PLUGIN_TEMPLATE, linesep)
           old == ContentOf(files, e)
           n == Stored(data, old, free)
           grown == IF n > Len(old) THEN n - Len(old) ELSE 0
       IN
       /\ files' = (e :> Overwritten(data, old, n)) @@ files
       /\ free' = free - grown
       /\ IF n = Len(data)
          THEN /\ pc' = [pc EXCEPT ![p] = "return"]
               /\ UNCHANGED << code, failed, err >>
          ELSE Raise(p, "write")
    /\ UNCHANGED << dirs, envvars, argv, args, plugin_directory, stack, retry,
                    ret, out, nmkdir, nwrite, pre, prev >>

\* return plugin_directory
Return(p) ==
    /\ pc[p] = "return"
    /\ ret' = [ret EXCEPT ![p] = plugin_directory[p]]
    /\ pc' = [pc EXCEPT ![p] = "print"]
    /\ UNCHANGED << fsvars, envvars, argv, args, plugin_directory, stack, retry,
                    out, err, code, failed, nmkdir, nwrite, pre, prev >>

\* print(...); return 0
PrintLine(p) ==
    /\ pc[p] = "print"
    /\ out' = [out EXCEPT ![p] = Append(out[p], SuccessLine(ret[p]))]
    /\ code' = [code EXCEPT ![p] = SuccessExit]
    /\ pc' = [pc EXCEPT ![p] = "done"]
    /\ UNCHANGED << fsvars, envvars, argv, args, plugin_directory, stack, retry,
                    ret, err, failed, nmkdir, nwrite, pre, prev >>

\* The process has ended; the next invocation of the command starts afresh.
Relaunch(p) ==
    /\ pc[p] = "done"
    /\ prev' = [ok |-> ret[p] # None, base |-> args[p].output, ret |-> ret[p]]
    /\ pc' = [pc EXCEPT ![p] = "idle"]
    /\ argv' = [argv EXCEPT ![p] = <<>>]
    /\ args' = [args EXCEPT ![p] = NoArgs]
    /\ plugin_directory' = [plugin_directory EXCEPT ![p] = None]
    /\ stack' = [stack EXCEPT ![p] = <<>>]
    /\ retry' = [retry EXCEPT ![p] = FALSE]
    /\ ret' = [ret EXCEPT ![p] = None]
    /\ out' = [out EXCEPT ![p] = <<>>]
    /\ err' = [err EXCEPT ![p] = "none"]
    /\ code' = [code EXCEPT ![p] = UncaughtExit]
    /\ failed' = [failed EXCEPT ![p] = "none"]
    /\ nmkdir' = [nmkdir EXCEPT ![p] = 0]
    /\ nwrite' = [nwrite EXCEPT ![p] = 0]
    /\ pre' = [pre EXCEPT ![p] = Snapshot]
    /\ UNCHANGED << fsvars, envvars >>

\* ------------------------------------------------------ initial states
\* The output directory the initial filesystems vary around: "site" below
\* the working directory.
SiteDirectory == Cwd \o <<"site", "wp-content", "plugins", "autositefix-fixes">>

SiteFile == SiteDirectory \o <<"autositefix-fixes.php">>

\* home/site, home/site/wp-content, ... : the k-th directory of the chain.
ChainDir(k) == SubSeq(SiteDirectory, 1, Len(Cwd) + k)

ChainLen == Len(SiteDirectory) - Len(Cwd)

\* What autositefix-fixes.php is before the first invocation.
OldKinds == { "absent", "empty", "short", "edited", "long", "same", "dir" }

OldContent(kind, sep) ==
    CASE kind = "empty" -> <<>>
      [] kind = "short" -> <<"<?php">> \o sep
      [] kind = "edited" ->
            <<"<?php">> \o sep \o <<"// my change">> \o sep
                \o <<"add_filter('the_content'">> \o sep
      [] kind = "long" ->
            Encode(PLUGIN_TEMPLATE, sep) \o <<"// my change">> \o sep
      [] OTHER -> Encode(PLUGIN_TEMPLATE, sep)

NotesFile == Cwd \o <<"notes.txt">>

SiblingFile == SiteDirectory \o <<"readme.txt">>

FreeChoices == { 0, LowFree, MaxFree }

InitFs(lvl, blocked, old, sep, fr, r) ==
    /\ blocked => lvl < ChainLen
    /\ old # "absent" => lvl = ChainLen
    /\ r = "file" => old \notin { "absent", "dir" }
    /\ dirs = {<<>>, Cwd} \cup { ChainDir(k) : k \in 1..lvl }
                  \cup (IF old = "dir" THEN {SiteFile} ELSE {})
    /\ files = (NotesFile :> <<"notes">>)
                 @@ (IF lvl = ChainLen THEN (SiblingFile :> <<"read", "me">>) ELSE <<>>)
                 @@ (IF blocked THEN (ChainDir(lvl + 1) :> <<"in the way">>) ELSE <<>>)
                 @@ (IF old \notin { "absent", "dir" }
                     THEN (SiteFile :> OldContent(old, sep)) ELSE <<>>)
    /\ ro = CASE r = "dir" -> { IF lvl = 0 THEN Cwd ELSE ChainDir(lvl) }
              [] r = "file" -> { SiteFile }
              [] OTHER -> {}
    /\ free = fr
    /\ linesep = sep

InitProcs ==
    /\ pc = [p \in Procs |-> "idle"]
    /\ argv = [p \in Procs |-> <<>>]
    /\ args = [p \in Procs |-> NoArgs]
    /\ plugin_directory = [p \in Procs |-> None]
    /\ stack = [p \in Procs |-> <<>>]
    /\ retry = [p \in Procs |-> FALSE]
    /\ ret = [p \in Procs |-> None]
    /\ out = [p \in Procs |-> <<>>]
    /\ err = [p \in Procs |-> "none"]
    /\ code = [p \in Procs |-> UncaughtExit]
    /\ failed = [p \in Procs |-> "none"]
    /\ nmkdir = [p \in Procs |-> 0]
    /\ nwrite = [p \in Procs |-> 0]
    /\ pre = [p \in Procs |-> Snapshot]
    /\ prev = NoPrev

Init ==
    /\ \E lvl \in 0..ChainLen, blocked \in BOOLEAN, old \in OldKinds,
          sep \in LineSeps, fr \in FreeChoices, r \in { "none", "dir", "file" } :
          InitFs(lvl, blocked, old, sep, fr, r)
    /\ InitProcs

\* --------------------------------------------------- specifications
\* The command run again and again, one invocation at a time.
Next ==
    \/ \E av \in ArgLists : Main(MainProc, av)
    \/ OsMkdir(MainProc)
    \/ OpenTrunc(MainProc)
    \/ WriteClose(MainProc)
    \/ Return(MainProc)
    \/ PrintLine(MainProc)
    \/ Relaunch(MainProc)

Spec == Init /\ [][Next]_vars

\* Two invocations of the command, each run once, their filesystem calls
\* interleaved in any order.
ConcArgLists ==
    { << <<"--wordpress">>, <<"--output">>, <<"site">> >>,
      << <<"--output">>, <<".", "site", "">>, <<"--wordpress">> >>,
      << <<"--wordpress">> >> }

NextConc ==
    \E p \in Procs :
        \/ \E av \in ConcArgLists : Main(p, av)
        \/ OsMkdir(p)
        \/ OpenTrunc(p)
        \/ WriteClose(p)
        \/ Return(p)
        \/ PrintLine(p)

SpecConc == Init /\ [][NextConc]_vars

\* The sequential specification with the scheduling of a single-threaded
\* program: a step that can be taken is taken.
Progress ==
    \/ OsMkdir(MainProc)
    \/ OpenTrunc(MainProc)
    \/ WriteClose(MainProc)
    \/ Return(MainProc)
    \/ PrintLine(MainProc)

FairSpec == Init /\ [][Next]_vars /\ WF_vars(Progress)

\* --------------------------------------- vocabulary of the properties
\* D/wp-content/plugins/autositefix-fixes, spelled out.
ExpectedDirectory(base) ==
    base \o <<"wp-content", "plugins", "autositefix-fixes">>

\* The filesystem entry of D/wp-content/plugins/autositefix-fixes/autositefix-fixes.php.
ExpectedFile(base) ==
    Resolve(base) \o <<"wp-content", "plugins", "autositefix-fixes",
                       "autositefix-fixes.php">>

Has(av, toks) == \E i \in 1..Len(av) : av[i] \in toks

\* The generator was called by invocation p.
Called(p) == nmkdir[p] > 0

Succeeded(p) == ret[p] # None

Unchanged(p) == dirs = pre[p].dirs /\ files = pre[p].files /\ free = pre[p].free

\* The filesystem snap lets the generator work on base: nothing but
\* directories on the way, permission to create what is missing and to write
\* the file, and room for the missing directories and for the template once
\* the old content is gone.
Writable(snap, base) ==
    LET d == Resolve(ExpectedDirectory(base))
        f == ExpectedFile(base)
    IN  /\ \A a \in Prefixes(d) : a \notin DOMAIN snap.files
        /\ \A a \in Prefixes(d) : a \notin snap.dirs => Parent(a) \notin ro
        /\ f \notin snap.dirs
        /\ IF f \in DOMAIN snap.files THEN f \notin ro ELSE d \notin ro
        /\ snap.free + Len(ContentOf(snap.files, f))
               >= Len(Encode(PLUGIN_TEMPLATE, linesep))
                    + Cardinality(Prefixes(d) \ snap.dirs)

\* --------------------------------------------------------- properties
\* C1: whenever generate_wordpress_plugin(D) has returned, it returned
\* exactly D joined with wp-content/plugins/autositefix-fixes, and the file
\* D/wp-content/plugins/autositefix-fixes/autositefix-fixes.php exists as a
\* regular file with every directory above it, down from the root, existing.
C1_CreatesAndReturns ==
    \A p \in Procs :
        Succeeded(p) =>
            /\ ret[p] = ExpectedDirectory(args[p].output)
            /\ ExpectedFile(args[p].output) \in DOMAIN files
            /\ \A a \in Prefixes(Resolve(ExpectedDirectory(args[p].output))) :
                   a \in dirs

\* C1 witness: a call returned for a base directory that did not exist when
\* the call started.
C1_Witness ==
    \E p \in Procs :
        /\ Succeeded(p)
        /\ Resolve(args[p].output) \notin pre[p].dirs
        /\ ExpectedFile(args[p].output) \in DOMAIN files

\* C2: whenever generate_wordpress_plugin(D) has returned, reading the file
\* back gives exactly PLUGIN_TEMPLATE (which starts with <?php and holds both
\* hook registrations), and the stored bytes are the template's encoding,
\* whatever the directory chain and the file were before.
C2_ContentIsTemplate ==
    \A p \in Procs :
        Succeeded(p) =>
            LET f == ExpectedFile(args[p].output) IN
            /\ f \in DOMAIN files
            /\ files[f] = Encode(PLUGIN_TEMPLATE, linesep)
            /\ Decode(files[f]) = PLUGIN_TEMPLATE
            /\ Head(Decode(files[f])) = "<?php"
            /\ Has(Decode(files[f]), {"add_action('wp_head'"})
            /\ Has(Decode(files[f]), {"add_filter('the_content'"})

\* C2 witness: a call returned where the file held more than the template
\* (a user's edit) in an existing directory before the call.
C2_Witness ==
    \E p \in Procs :
        LET f == ExpectedFile(args[p].output) IN
        /\ Succeeded(p)
        /\ f \in DOMAIN pre[p].files
        /\ Len(pre[p].files[f]) > Len(Encode(PLUGIN_TEMPLATE, linesep))
        /\ files[f] # pre[p].files[f]

\* C3: an invocation that generates for base directory D right after an
\* invocation whose call generate_wordpress_plugin(D) returned also
\* succeeds, returns the same path, and leaves directories, files and
\* contents as the first call left them.
C3_Idempotent ==
    \A p \in Procs :
        ( /\ pc[p] = "done"
          /\ prev.ok
          /\ args[p].status = "ok" /\ args[p].wordpress
          /\ args[p].output = prev.base )
        => /\ Succeeded(p)
           /\ code[p] = 0
           /\ ret[p] = prev.ret
           /\ dirs = pre[p].dirs
           /\ files = pre[p].files

\* C3 witness: a second call on the same base directory has ended, the
\* first having created the directories.
C3_Witness ==
    \E p \in Procs :
        /\ pc[p] = "done"
        /\ prev.ok
        /\ Called(p)
        /\ args[p].output = prev.base
        /\ Succeeded(p)

ModeAndOutput(av, text) ==
    \/ av = << <<"--wordpress">>, <<"--output">>, text >>
    \/ av = << <<"--output">>, text, <<"--wordpress">> >>

OutputTexts == { <<"site">>, <<".", "site", "">>, <<"", "srv", "out">> }

\* C5: an invocation given --wordpress and --output P whose filesystem lets
\* the generator work on P ends with exit status 0, having called the
\* generator once with base directory P; the plugin directory under P
\* exists, and exactly one line was printed, which holds the text of the
\* generated directory's path.  A success line is never printed before the
\* generator has returned.
C5_CliSuccess ==
    \A p \in Procs :
        /\ \A text \in OutputTexts :
             ( /\ pc[p] = "done"
               /\ ModeAndOutput(argv[p], text)
               /\ Writable(pre[p], PathOf(text)) )
             => /\ code[p] = 0
                /\ nmkdir[p] = 1
                /\ args[p].output = PathOf(text)
                /\ ret[p] = ExpectedDirectory(PathOf(text))
                /\ Resolve(ExpectedDirectory(PathOf(text))) \in dirs
                /\ Len(out[p]) = 1
                /\ out[p][1].path = StrOf(ExpectedDirectory(PathOf(text)))
        /\ (Called(p) /\ out[p] # <<>>) => Succeeded(p)

\* C5 witness: --output ./site/ --wordpress has ended with status 0 and one
\* printed line.
C5_Witness ==
    \E p \in Procs :
        /\ pc[p] = "done"
        /\ ModeAndOutput(argv[p], <<".", "site", "">>)
        /\ code[p] = 0
        /\ Len(out[p]) = 1
        /\ out[p][1].path = <<"site", "wp-content", "plugins", "autositefix-fixes">>

\* C6: a failed directory creation ends the invocation with no file write
\* attempted, no path returned, no success line and a non-zero status; a
\* failed file write (at open or at write) ends it likewise, after one
\* directory creation and one write attempt, and the plugin directory and
\* everything that existed before are still there.
C6_FailureIsTerminal ==
    \A p \in Procs :
        /\ failed[p] # "none" =>
              /\ pc[p] = "done"
              /\ ret[p] = None
              /\ out[p] = <<>>
              /\ code[p] # 0
              /\ nmkdir[p] = 1
              /\ pre[p].dirs \subseteq dirs
              /\ DOMAIN pre[p].files \subseteq DOMAIN files
        /\ failed[p] = "mkdir" =>
              /\ nwrite[p] = 0
              /\ ExpectedFile(args[p].output) \in DOMAIN files
                    => ExpectedFile(args[p].output) \in DOMAIN pre[p].files
        /\ failed[p] \in { "open", "write" } =>
              /\ nwrite[p] = 1
              /\ Resolve(ExpectedDirectory(args[p].output)) \in dirs
        /\ failed[p] = "write" =>
              ExpectedFile(args[p].output) \in DOMAIN files

\* C6 witness: the write failed on a full disk after this invocation had
\* created the plugin directory, which is still there.
C6_Witness ==
    \E p \in Procs :
        /\ failed[p] = "write"
        /\ Resolve(ExpectedDirectory(args[p].output)) \notin pre[p].dirs
        /\ Resolve(ExpectedDirectory(args[p].output)) \in dirs
        /\ code[p] = 1

\* C6, second case reached: a directory creation failed after the invocation
\* had created a directory above it, which is still there.
C6_MkdirFailureReached ==
    \E p \in Procs : failed[p] = "mkdir" /\ dirs # pre[p].dirs

\* The outcomes of an invocation that has ended.
HelpOutcome(p) ==
    /\ code[p] = 0 /\ err[p] = "none" /\ Len(out[p]) = 1 /\ out[p][1].text = "usage"
    /\ ~Called(p) /\ Unchanged(p)

UsageOutcome(p) ==
    /\ code[p] = 2 /\ err[p] = "usage" /\ out[p] = <<>>
    /\ ~Called(p) /\ Unchanged(p)

SuccessOutcome(p) ==
    /\ code[p] = 0 /\ err[p] = "none" /\ Succeeded(p) /\ failed[p] = "none"
    /\ ExpectedFile(args[p].output) \in DOMAIN files
    /\ files[ExpectedFile(args[p].output)] = Encode(PLUGIN_TEMPLATE, linesep)

ErrorOutcome(p) ==
    /\ code[p] = 1 /\ err[p] = "traceback" /\ out[p] = <<>>
    /\ ~Succeeded(p) /\ failed[p] # "none"

\* C7 as stated: an ended invocation is a usage error (status 2, nothing
\* changed) when --wordpress is absent, a success when it is present and no
\* filesystem call failed, a propagated filesystem error otherwise; with at
\* most one directory creation and one file write.
C7_AsStated ==
    \A p \in Procs :
        pc[p] = "done" =>
            /\ ~Has(argv[p], { <<"--wordpress">> }) => UsageOutcome(p)
            /\ (Has(argv[p], { <<"--wordpress">> }) /\ failed[p] = "none")
                   => SuccessOutcome(p)
            /\ (Has(argv[p], { <<"--wordpress">> }) /\ failed[p] # "none")
                   => ErrorOutcome(p)
            /\ nmkdir[p] <= 1 /\ nwrite[p] <= 1

\* C7 amended: every invocation ends, in exactly one of four outcomes: help
\* (status 0, the help text printed, nothing changed) when parsing reaches a
\* help flag; usage error (status 2, nothing changed) when parsing fails or
\* the mode flag is not given; success (status 0, the file holds the
\* template) when the mode flag is given and no filesystem call fails;
\* filesystem error (status 1, the exception propagated) otherwise.  An
\* invocation makes at most one directory creation and one file write.
C7_Outcomes ==
    /\ [](\A p \in Procs :
            /\ nmkdir[p] <= 1 /\ nwrite[p] <= 1
            /\ pc[p] = "done" =>
                 /\ args[p].status = "help" => HelpOutcome(p)
                 /\ (args[p].status = "error"
                        \/ (args[p].status = "ok" /\ ~args[p].wordpress))
                       => UsageOutcome(p)
                 /\ (args[p].status = "ok" /\ args[p].wordpress
                        /\ failed[p] = "none") => SuccessOutcome(p)
                 /\ (args[p].status = "ok" /\ args[p].wordpress
                        /\ failed[p] # "none") => ErrorOutcome(p)
                 /\ Cardinality({ o \in { "help", "usage", "success", "error" } :
                        \/ o = "help" /\ HelpOutcome(p)
                        \/ o = "usage" /\ UsageOutcome(p)
                        \/ o = "success" /\ SuccessOutcome(p)
                        \/ o = "error" /\ ErrorOutcome(p) }) = 1)
    /\ (pc[MainProc] \notin { "idle", "done" }) ~> (pc[MainProc] = "done")

\* C7 witness: all four outcomes are seen: an invocation has ended with a
\* filesystem error in a run whose last invocation had succeeded.
C7_Witness ==
    \E p \in Procs :
        /\ pc[p] = "done"
        /\ ErrorOutcome(p)
        /\ prev.ok

\* C7, help outcome reached: an invocation given the mode flag and a help
\* flag has ended with the help text.
C7_HelpReached ==
    \E p \in Procs :
        pc[p] = "done" /\ HelpOutcome(p) /\ Has(argv[p], WordpressFlags)

\* The order of the steps of an invocation.
StepOrder ==
    { <<"idle", "mkdir">>, <<"idle", "done">>,
      <<"mkdir", "open">>, <<"mkdir", "done">>,
      <<"open", "write">>, <<"open", "done">>,
      <<"write", "return">>, <<"write", "done">>,
      <<"return", "print">>, <<"print", "done">>,
      <<"done", "idle">> }

\* C8: an invocation goes through ensure-directory, write-file, return-path
\* (and print) in this order and leaves the order only by ending.  The file
\* is opened and written only while the plugin directory exists; the path is
\* returned, and the success line printed, only when the file holds the whole
\* template; no file or directory ever lacks its parent directory; success is
\* never reported while the file is absent.
C8_LinearSequence ==
    /\ [][\A p \in Procs : pc'[p] # pc[p] => <<pc[p], pc'[p]>> \in StepOrder]_vars
    /\ [](\A p \in Procs :
            /\ pc[p] \in { "open", "write", "return", "print" }
                  => Resolve(ExpectedDirectory(args[p].output)) \in dirs
            /\ pc[p] = "write" => ExpectedFile(args[p].output) \in DOMAIN files
            /\ (pc[p] \in { "return", "print" } \/ Succeeded(p))
                  => /\ ExpectedFile(args[p].output) \in DOMAIN files
                     /\ files[ExpectedFile(args[p].output)]
                            = Encode(PLUGIN_TEMPLATE, linesep)
                     /\ nwrite[p] = 1
            /\ pc[p] = "print" => Succeeded(p)
            /\ (Called(p) /\ out[p] # <<>>)
                  => /\ Succeeded(p)
                     /\ ExpectedFile(args[p].output) \in DOMAIN files)
    /\ [](/\ \A f \in DOMAIN files : Parent(f) \in dirs
          /\ \A d \in dirs : d = <<>> \/ Parent(d) \in dirs)

\* C8 witness: the file is open for writing in a plugin directory this
\* invocation has created.
C8_Witness ==
    \E p \in Procs :
        /\ pc[p] = "write"
        /\ Resolve(ExpectedDirectory(args[p].output)) \notin pre[p].dirs
        /\ Resolve(ExpectedDirectory(args[p].output)) \in dirs

SameBase(p, q) == Resolve(args[p].output) = Resolve(args[q].output)

\* C9: with two invocations interleaved, a directory creation never fails
\* on an entry that is a directory (whoever made it); an invocation whose
\* filesystem let the generator work when it started succeeds when every
\* other invocation works on the same base directory; and once two
\* invocations on the same base directory have both returned, the file reads
\* back as PLUGIN_TEMPLATE exactly.
C9_LastWriterWins ==
    \A p \in Procs :
        /\ failed[p] = "mkdir" => Head(stack[p]) \notin dirs
        /\ ( /\ pc[p] = "done" /\ Called(p)
             /\ Writable(pre[p], args[p].output)
             /\ \A q \in Procs : Called(q) => SameBase(p, q) )
           => Succeeded(p)
        /\ \A q \in Procs :
             ( /\ p # q
               /\ pc[p] = "done" /\ pc[q] = "done"
               /\ Succeeded(p) /\ Succeeded(q)
               /\ SameBase(p, q) )
             => /\ ExpectedFile(args[p].output) \in DOMAIN files
                /\ files[ExpectedFile(args[p].output)]
                       = Encode(PLUGIN_TEMPLATE, linesep)
                /\ Decode(files[ExpectedFile(args[p].output)]) = PLUGIN_TEMPLATE

\* C9 witness: two invocations on the same base directory have both
\* succeeded; the second started when the first had truncated the edited
\* file and not yet written it.
C9_Witness ==
    \E p \in Procs, q \in Procs :
        /\ p # q
        /\ pc[p] = "done" /\ pc[q] = "done"
        /\ Succeeded(p) /\ Succeeded(q)
        /\ SameBase(p, q)
        /\ ExpectedFile(args[p].output) \in DOMAIN pre[p].files
        /\ pre[p].files[ExpectedFile(args[p].output)] # <<>>
        /\ pre[q].files[ExpectedFile(args[p].output)] = <<>>
        /\ pre[q].dirs = pre[p].dirs

\* C9, intermediate state reached: the file is empty after an invocation
\* has written all of it and before it returns.
C9_EmptyObserved ==
    \E p \in Procs :
        /\ pc[p] = "return"
        /\ files[ExpectedFile(args[p].output)] = <<>>

\* C10: from its start on, an invocation with base directory D removes no
\* directory and no file, adds no directory outside the chain from the root
\* to D/wp-content/plugins/autositefix-fixes, and adds or changes no file
\* but D/wp-content/plugins/autositefix-fixes/autositefix-fixes.php; the
\* files that were there at the beginning and are not a plugin file keep
\* their content through every sequence of invocations.
C10_Frame ==
    /\ \A p \in Procs :
         pc[p] # "idle" =>
            /\ pre[p].dirs \subseteq dirs
            /\ DOMAIN pre[p].files \subseteq DOMAIN files
            /\ \A d \in dirs \ pre[p].dirs :
                   d \in Prefixes(Resolve(ExpectedDirectory(args[p].output)))
            /\ \A f \in DOMAIN files :
                   f # ExpectedFile(args[p].output)
                       => f \in DOMAIN pre[p].files /\ files[f] = pre[p].files[f]
    /\ NotesFile \in DOMAIN files /\ files[NotesFile] = <<"notes">>
    /\ SiblingFile \in DOMAIN files => files[SiblingFile] = <<"read", "me">>
    /\ SiblingFile \notin dirs /\ NotesFile \notin dirs

\* C10 witness: an invocation has rewritten the plugin file in a directory
\* that held another file, which is as it was.
C10_Witness ==
    \E p \in Procs :
        /\ Succeeded(p)
        /\ SiblingFile \in DOMAIN pre[p].files
        /\ SiblingFile \in DOMAIN files
        /\ files[ExpectedFile(args[p].output)] # ContentOf(pre[p].files, ExpectedFile(args[p].output))

====
